---- MODULE Spec2Model ----
(***************************************************************************)
(* The paper enrichment pipeline of parse_papers.py: the persisted store   *)
(* (parsed_accepted_papers.csv), the raw listing (accepted_papers.txt),    *)
(* the merge of both, the thread pool that fetches missing abstracts, and  *)
(* the writer that rewrites the store while the pool runs.                 *)
(***************************************************************************)
EXTENDS Integers, Sequences, FiniteSets, TLC

\* ---------------------------------------------------------------- bounds
MaxInput == 2      \* rows of the store plus entries of the listing, first run
MaxPool  == 4      \* rows of the store in the pool-focused specification
MaxRows  == 3      \* rows of the store in the specification of the load
MaxPapers == 3     \* papers of the frame the browser loads

\* ------------------------------------------------------- program constants
MAX_WORKERS == 4

\* ------------------------------------------------------------ value sets
None == "<None>"                       \* Python's None
Titles == {"A", "B"}
AuthorLists == {<<"X", "Y">>, <<"Y", "X">>}
Identities == {<<"A", <<"X", "Y">>>>, <<"A", <<"Y", "X">>>>, <<"B", <<"X", "Y">>>>}
StoredAbstracts == {"", "e"}           \* abstract column of a stored row
Payload == "p"                         \* summary text of an arXiv entry

\* Paper.__init__
Paper(title, authors, abstract) ==
    [title |-> title, authors |-> authors, abstract |-> abstract]

\* Paper.__eq__: title and author list, element for element in order
PaperEq(p, q) == p.title = q.title /\ p.authors = q.authors

\* variant: the membership test misses the last element of the list
NotInButLast(p, papers) == \A i \in 1..(Len(papers) - 1) : ~PaperEq(papers[i], p)

\* "paper not in papers": list membership through __eq__
NotIn(p, papers) == \A i \in 1..Len(papers) : ~PaperEq(papers[i], p)

\* truthiness of paper.abstract ("if not paper.abstract")
Falsy(a) == a = None \/ a = ""

\* str(list) of the authors as csv.DictWriter writes it, as tokens
RECURSIVE ReprItems(_)
ReprItems(authors) ==
    IF Len(authors) = 0 THEN <<>>
    ELSE IF Len(authors) = 1 THEN <<authors[1]>>
    ELSE <<authors[1], ",">> \o ReprItems(Tail(authors))

\* variant: the authors are written joined by commas, without the brackets
ReprAuthorsJoined(authors) == ReprItems(authors)

ReprAuthors(authors) == <<"[">> \o ReprItems(authors) \o <<"]">>

\* csv.DictWriter writes None as the empty string
CsvStr(a) == IF a = None THEN "" ELSE a

\* writer.writerow(vars(paper))
RowOf(p) ==
    [title |-> p.title, authors |-> ReprAuthors(p.authors), abstract |-> CsvStr(p.abstract)]

\* the authors column as text: does it denote a list of strings
Punct == {"[", "]", ","}

WellFormed(toks) ==
    /\ Len(toks) >= 2
    /\ toks[1] = "["
    /\ toks[Len(toks)] = "]"
    /\ (Len(toks) = 2 \/ Len(toks) % 2 = 1)
    /\ \A i \in 2..(Len(toks) - 1) :
          IF i % 2 = 0 THEN toks[i] \notin Punct ELSE toks[i] = ","

\* texts that are Python literals of another type than list (a number)
NumberLits == {"5"}

\* ast.literal_eval returns: the text is a literal, a list or not
Evaluates(toks) == WellFormed(toks) \/ (Len(toks) = 1 /\ toks[1] \in NumberLits)

\* the value ast.literal_eval returns: the list, or the number (tagged)
LiteralEval(toks) ==
    IF WellFormed(toks)
      THEN [k \in 1..((Len(toks) - 1) \div 2) |-> toks[2 * k]]
      ELSE <<"int", toks[1]>>

\* load_parsed_papers: a row is skipped when literal_eval raises ValueError or
\* SyntaxError, and kept with whatever literal_eval returned otherwise
RECURSIVE LoadRows(_)
LoadRows(rows) ==
    IF Len(rows) = 0 THEN <<>>
    ELSE LET r == rows[1] IN
         (IF Evaluates(r.authors)
            THEN <<Paper(r.title, LiteralEval(r.authors), r.abstract)>>
            ELSE <<>>) \o LoadRows(Tail(rows))

\* load_parsed_papers: an absent file gives []
load_parsed_papers(f) == IF f.exists THEN LoadRows(f.rows) ELSE <<>>

\* variant: a new paper is put in front of the list instead of appended
RECURSIVE MergeLoopPrepend(_, _, _)
MergeLoopPrepend(papers, cands, count) ==
    IF Len(cands) = 0 THEN [papers |-> papers, count |-> count]
    ELSE LET paper == Paper(cands[1][1], cands[1][2], None) IN
         IF \A i \in 1..Len(papers) : ~PaperEq(papers[i], paper)
           THEN MergeLoopPrepend(<<paper>> \o papers, Tail(cands), count + 1)
           ELSE MergeLoopPrepend(papers, Tail(cands), count)

\* load_raw_papers, the loop over the listing: papers and new_papers_count
RECURSIVE MergeLoop(_, _, _)
MergeLoop(papers, cands, count) ==
    IF Len(cands) = 0 THEN [papers |-> papers, count |-> count]
    ELSE LET paper == Paper(cands[1][1], cands[1][2], None) IN
         IF NotIn(paper, papers)
           THEN MergeLoop(Append(papers, paper), Tail(cands), count + 1)
           ELSE MergeLoop(papers, Tail(cands), count)

load_raw_papers(existing_papers, cands) == MergeLoop(existing_papers, cands, 0)

\* -------------------------------------------------------- input universes
RECURSIVE SeqsUpTo(_, _)
SeqsUpTo(S, n) ==
    IF n = 0 THEN {<<>>}
    ELSE LET shorter == SeqsUpTo(S, n - 1) IN
         shorter \cup {Append(s, x) : s \in {t \in shorter : Len(t) = n - 1}, x \in S}

StoreRows == {RowOf(Paper(id[1], id[2], a)) : id \in Identities, a \in StoredAbstracts}
StoreFiles ==
    {[exists |-> FALSE, rows |-> <<>>]}
      \cup {[exists |-> TRUE, rows |-> rs] : rs \in SeqsUpTo(StoreRows, MaxInput)}
CandLists == SeqsUpTo(Identities, MaxInput)

\* _parse_arxiv_response: (title, abstract) of the first entry, or (None, None)
Responses ==
    {[title |-> t, abstract |-> a] : t \in Titles \cup {None}, a \in {Payload, None}}
NoResp == [i |-> 0, title |-> None, abstract |-> None]

\* ------------------------------------------------------------------ state
VARIABLES
    file,       \* the store file: [exists, rows]
    raw,        \* the raw listing: [exists, cands]
    pc,         \* position of load_papers
    run,        \* number of the current run
    existing,   \* result of load_parsed_papers in this run
    papers,     \* the list load_papers works on (Paper objects are mutated in place)
    hasNew,     \* has_new_papers
    entry,      \* the list as passed to process_papers_with_abstracts
    status,     \* per task of executor.map: "queued", "running", "done"
    written,    \* rows written by the writer in this run
    fileOpen,   \* the output file is open for writing
    opens,      \* times the output file was opened for writing in this run
    calls,      \* per record: calls of fetch_abstract_for_paper in this run
    lastResp,   \* the response the lookup that just finished received, and its index
    ret,        \* what load_papers returned or raised
    preStore,   \* the store file as it was when the run started
    prevPc      \* how the previous run ended

vars == <<file, raw, pc, run, existing, papers, hasNew, entry, status, written,
          fileOpen, opens, calls, lastResp, ret, preStore, prevPc>>

\* the browsing layer (paper_browser.py), idle while the pipeline runs
VARIABLES
    full_papers_df,  \* the topic name ('Name') of each paper of the joined frame
    papers_df,       \* the filtered frame: row numbers of full_papers_df
    current_index,   \* the cursor, 0-based
    shown,           \* the row of full_papers_df on display, 0 for "Invalid index"
    lastOp           \* the handler that ran last, and its argument

bvars == <<full_papers_df, papers_df, current_index, shown, lastOp>>

allvars == <<vars, bvars>>

NoOp == [op |-> "none", n |-> 0, topic |-> ""]

BrowserIdle ==
    /\ full_papers_df = <<>>
    /\ papers_df = <<>>
    /\ current_index = 0
    /\ shown = 0
    /\ lastOp = NoOp

RawFiles ==
    {[exists |-> FALSE, cands |-> <<>>]} \cup {[exists |-> TRUE, cands |-> c] : c \in CandLists}

Pending == [kind |-> "pending", val |-> <<>>]
Running == {"start", "loaded", "merged", "enrich", "failing"}
Terminal == {"noop", "done", "error", "killed"}

InFlight == {i \in DOMAIN status : status[i] = "running"}
Queued == {i \in DOMAIN status : status[i] = "queued"}

RunInit ==
    /\ pc = "start"
    /\ existing = <<>>
    /\ papers = <<>>
    /\ hasNew = FALSE
    /\ entry = <<>>
    /\ status = <<>>
    /\ written = 0
    /\ fileOpen = FALSE
    /\ opens = 0
    /\ calls = <<>>
    /\ lastResp = NoResp
    /\ ret = Pending

Init ==
    /\ file \in StoreFiles
    /\ raw \in RawFiles
    /\ Len(file.rows) + Len(raw.cands) <= MaxInput
    /\ run = 1
    /\ preStore = file
    /\ prevPc = "none"
    /\ RunInit
    /\ BrowserIdle

\* load_papers -> fetch_papers -> load_parsed_papers
LoadStore ==
    /\ pc = "start"
    /\ existing' = load_parsed_papers(file)
    /\ papers' = load_parsed_papers(file)
    /\ pc' = "loaded"
    /\ lastResp' = NoResp
    /\ UNCHANGED <<file, raw, run, hasNew, entry, status, written, fileOpen,
                   opens, calls, ret, preStore, prevPc>>
    /\ UNCHANGED bvars

\* load_raw_papers with the listing present: copy, merge, count
MergeRaw ==
    /\ pc = "loaded"
    /\ raw.exists
    /\ LET m == load_raw_papers(existing, raw.cands) IN
         /\ papers' = m.papers
         /\ hasNew' = (m.count > 0)
    /\ pc' = "merged"
    /\ lastResp' = NoResp
    /\ UNCHANGED <<file, raw, run, existing, entry, status, written, fileOpen,
                   opens, calls, ret, preStore, prevPc>>
    /\ UNCHANGED bvars

\* load_raw_papers with the listing absent returns the bare list; unpacking it
\* in load_papers raises (two elements unpack into Paper objects, and
\* len() of a Paper raises in process_papers_with_abstracts before the open)
MergeNoRaw ==
    /\ pc = "loaded"
    /\ ~raw.exists
    /\ pc' = "error"
    /\ ret' = [kind |-> "raise", val |-> <<>>]
    /\ lastResp' = NoResp
    /\ UNCHANGED <<file, raw, run, existing, papers, hasNew, entry, status,
                   written, fileOpen, opens, calls, preStore, prevPc>>
    /\ UNCHANGED bvars

\* load_papers: "if not papers: return"
ReturnEmpty ==
    /\ pc = "merged"
    /\ papers = <<>>
    /\ pc' = "noop"
    /\ ret' = [kind |-> "None", val |-> <<>>]
    /\ lastResp' = NoResp
    /\ UNCHANGED <<file, raw, run, existing, papers, hasNew, entry, status,
                   written, fileOpen, opens, calls, preStore, prevPc>>
    /\ UNCHANGED bvars

\* load_papers: has_new_papers is false, return papers
ReturnNoNew ==
    /\ pc = "merged"
    /\ papers # <<>>
    /\ ~hasNew
    /\ pc' = "noop"
    /\ ret' = [kind |-> "papers", val |-> papers]
    /\ lastResp' = NoResp
    /\ UNCHANGED <<file, raw, run, existing, papers, hasNew, entry, status,
                   written, fileOpen, opens, calls, preStore, prevPc>>
    /\ UNCHANGED bvars

\* process_papers_with_abstracts: open(output_file, 'w') truncates the store,
\* writeheader, executor.map submits one task per paper
OpenOutput ==
    /\ pc = "merged"
    /\ papers # <<>>
    /\ hasNew
    /\ file' = [exists |-> TRUE, rows |-> <<>>]
    /\ fileOpen' = TRUE
    /\ opens' = opens + 1
    /\ entry' = papers
    /\ status' = [i \in 1..Len(papers) |-> "queued"]
    /\ calls' = [i \in 1..Len(papers) |-> 0]
    /\ pc' = "enrich"
    /\ lastResp' = NoResp
    /\ UNCHANGED <<raw, run, existing, papers, hasNew, written, ret, preStore,
                   prevPc>>
    /\ UNCHANGED bvars

\* open(output_file, 'w') raises: logged and re-raised
OpenFail ==
    /\ pc = "merged"
    /\ papers # <<>>
    /\ hasNew
    /\ pc' = "error"
    /\ ret' = [kind |-> "raise", val |-> <<>>]
    /\ lastResp' = NoResp
    /\ UNCHANGED <<file, raw, run, existing, papers, hasNew, entry, status,
                   written, fileOpen, opens, calls, preStore, prevPc>>
    /\ UNCHANGED bvars

\* variant: process_single_paper fetches whether or not the paper has an abstract
StartTaskAlways(i) ==
    /\ pc \in {"enrich", "failing"}
    /\ i \in Queued
    /\ \A j \in Queued : i <= j
    /\ Cardinality(InFlight) < MAX_WORKERS
    /\ status' = [status EXCEPT ![i] = "running"]
    /\ calls' = [calls EXCEPT ![i] = @ + 1]
    /\ lastResp' = NoResp
    /\ UNCHANGED <<file, raw, pc, run, existing, papers, hasNew, entry, written,
                   fileOpen, opens, ret, preStore, prevPc>>
    /\ UNCHANGED bvars

\* variant: only the papers new in this run are fetched
StartTaskNewOnly(i) ==
    /\ pc \in {"enrich", "failing"}
    /\ i \in Queued
    /\ \A j \in Queued : i <= j
    /\ Cardinality(InFlight) < MAX_WORKERS
    /\ IF Falsy(papers[i].abstract) /\ i > Len(existing)
         THEN /\ status' = [status EXCEPT ![i] = "running"]
              /\ calls' = [calls EXCEPT ![i] = @ + 1]
         ELSE /\ status' = [status EXCEPT ![i] = "done"]
              /\ calls' = calls
    /\ lastResp' = NoResp
    /\ UNCHANGED <<file, raw, pc, run, existing, papers, hasNew, entry, written,
                   fileOpen, opens, ret, preStore, prevPc>>
    /\ UNCHANGED bvars

\* variant: one thread per task, no limit on the threads
StartTaskUnbounded(i) ==
    /\ pc \in {"enrich", "failing"}
    /\ i \in Queued
    /\ \A j \in Queued : i <= j
    /\ IF Falsy(papers[i].abstract)
         THEN /\ status' = [status EXCEPT ![i] = "running"]
              /\ calls' = [calls EXCEPT ![i] = @ + 1]
         ELSE /\ status' = [status EXCEPT ![i] = "done"]
              /\ calls' = calls
    /\ lastResp' = NoResp
    /\ UNCHANGED <<file, raw, pc, run, existing, papers, hasNew, entry, written,
                   fileOpen, opens, ret, preStore, prevPc>>
    /\ UNCHANGED bvars

\* a pool thread takes the next task of the queue: process_single_paper up
\* to the request of fetch_abstract_for_paper, or to its end when the paper
\* has an abstract
StartTask(i) ==
    /\ pc \in {"enrich", "failing"}
    /\ i \in Queued
    /\ \A j \in Queued : i <= j
    /\ Cardinality(InFlight) < MAX_WORKERS
    /\ IF Falsy(papers[i].abstract)
         THEN /\ status' = [status EXCEPT ![i] = "running"]
              /\ calls' = [calls EXCEPT ![i] = @ + 1]
         ELSE /\ status' = [status EXCEPT ![i] = "done"]
              /\ calls' = calls
    /\ lastResp' = NoResp
    /\ UNCHANGED <<file, raw, pc, run, existing, papers, hasNew, entry, written,
                   fileOpen, opens, ret, preStore, prevPc>>
    /\ UNCHANGED bvars

\* variant: the abstract is taken without comparing the titles
AssignedUnchecked(title, resp) ==
    IF resp.abstract = None /\ resp.title = None THEN "" ELSE resp.abstract

\* fetch_abstract_for_paper after the response: the abstract it assigns
Assigned(title, resp) ==
    IF resp.abstract = None /\ resp.title = None THEN ""
    ELSE IF resp.title # title THEN ""
    ELSE resp.abstract

\* variant: a response without a title raises out of the worker and the
\* run aborts
FinishLookupRaises(i, resp) ==
    /\ pc \in {"enrich", "failing"}
    /\ i \in InFlight
    /\ papers' = [papers EXCEPT ![i].abstract =
                     IF resp.title = None THEN "" ELSE resp.abstract]
    /\ status' = [status EXCEPT ![i] = "done"]
    /\ pc' = IF resp.title = None THEN "failing" ELSE pc
    /\ lastResp' = [i |-> i, title |-> resp.title, abstract |-> resp.abstract]
    /\ UNCHANGED <<file, raw, run, existing, hasNew, entry, written, fileOpen,
                   opens, calls, ret, preStore, prevPc>>
    /\ UNCHANGED bvars

\* variant: a lookup that found nothing puts its task back in the queue
FinishLookupRetry(i, resp) ==
    /\ pc \in {"enrich", "failing"}
    /\ i \in InFlight
    /\ papers' = [papers EXCEPT ![i].abstract =
                     IF resp.title # papers[i].title THEN "" ELSE resp.abstract]
    /\ status' = [status EXCEPT ![i] =
                     IF resp.title = None /\ calls[i] < 2 THEN "queued" ELSE "done"]
    /\ lastResp' = [i |-> i, title |-> resp.title, abstract |-> resp.abstract]
    /\ UNCHANGED <<file, raw, pc, run, existing, hasNew, entry, written, fileOpen,
                   opens, calls, ret, preStore, prevPc>>
    /\ UNCHANGED bvars

\* fetch_abstract_for_paper as a step of its worker: the response is there,
\* the abstract is assigned, the task is done
FinishLookup(i, resp) ==
    /\ pc \in {"enrich", "failing"}
    /\ i \in InFlight
    /\ papers' = [papers EXCEPT ![i].abstract = Assigned(papers[i].title, resp)]
    /\ status' = [status EXCEPT ![i] = "done"]
    /\ lastResp' = [i |-> i, title |-> resp.title, abstract |-> resp.abstract]
    /\ UNCHANGED <<file, raw, pc, run, existing, hasNew, entry, written, fileOpen,
                   opens, calls, ret, preStore, prevPc>>
    /\ UNCHANGED bvars

\* variant: rows are written as the lookups complete, not in submission order
WriteRowAsCompleted ==
    /\ pc = "enrich"
    /\ written < Len(papers)
    /\ \E j \in (written + 1)..Len(papers) :
          /\ status[j] = "done"
          /\ file' = [file EXCEPT !.rows = Append(@, RowOf(papers[j]))]
    /\ written' = written + 1
    /\ lastResp' = NoResp
    /\ UNCHANGED <<raw, pc, run, existing, papers, hasNew, entry, status, fileOpen,
                   opens, calls, ret, preStore, prevPc>>
    /\ UNCHANGED bvars

\* variant: the writer waits for the result after the one it writes
WriteRowWaitsNext ==
    /\ pc = "enrich"
    /\ written < Len(papers)
    /\ written + 2 \in DOMAIN status
    /\ status[written + 1] = "done"
    /\ status[written + 2] = "done"
    /\ file' = [file EXCEPT !.rows = Append(@, RowOf(papers[written + 1]))]
    /\ written' = written + 1
    /\ lastResp' = NoResp
    /\ UNCHANGED <<raw, pc, run, existing, papers, hasNew, entry, status, fileOpen,
                   opens, calls, ret, preStore, prevPc>>
    /\ UNCHANGED bvars

\* the loop over executor.map: the next result in submission order is there,
\* writer.writerow(doc_dict)
WriteRow ==
    /\ pc = "enrich"
    /\ written < Len(papers)
    /\ status[written + 1] = "done"
    /\ file' = [file EXCEPT !.rows = Append(@, RowOf(papers[written + 1]))]
    /\ written' = written + 1
    /\ lastResp' = NoResp
    /\ UNCHANGED <<raw, pc, run, existing, papers, hasNew, entry, status,
                   fileOpen, opens, calls, ret, preStore, prevPc>>
    /\ UNCHANGED bvars

\* writer.writerow raises (disk, permission): the with blocks unwind
WriteFail ==
    /\ pc = "enrich"
    /\ written < Len(papers)
    /\ status[written + 1] = "done"
    /\ pc' = "failing"
    /\ lastResp' = NoResp
    /\ UNCHANGED <<file, raw, run, existing, papers, hasNew, entry, status,
                   written, fileOpen, opens, calls, ret, preStore, prevPc>>
    /\ UNCHANGED bvars

\* variant: the failed write is logged and not raised again
JoinSwallow ==
    /\ pc = "failing"
    /\ InFlight = {}
    /\ fileOpen' = FALSE
    /\ pc' = "done"
    /\ ret' = [kind |-> "papers", val |-> papers]
    /\ lastResp' = NoResp
    /\ UNCHANGED <<file, raw, run, existing, papers, hasNew, entry, status,
                   written, opens, calls, preStore, prevPc>>
    /\ UNCHANGED bvars

\* the executor's exit has waited for the running tasks (tasks still queued
\* were run or cancelled), the file is closed, the exception is re-raised
Join ==
    /\ pc = "failing"
    /\ InFlight = {}
    /\ fileOpen' = FALSE
    /\ pc' = "error"
    /\ ret' = [kind |-> "raise", val |-> <<>>]
    /\ lastResp' = NoResp
    /\ UNCHANGED <<file, raw, run, existing, papers, hasNew, entry, status,
                   written, opens, calls, preStore, prevPc>>
    /\ UNCHANGED bvars

\* all rows written: the with blocks exit, load_papers returns papers
Finish ==
    /\ pc = "enrich"
    /\ written = Len(papers)
    /\ fileOpen' = FALSE
    /\ pc' = "done"
    /\ ret' = [kind |-> "papers", val |-> papers]
    /\ lastResp' = NoResp
    /\ UNCHANGED <<file, raw, run, existing, papers, hasNew, entry, status,
                   written, opens, calls, preStore, prevPc>>
    /\ UNCHANGED bvars

\* the process is killed from outside: its memory is gone, and of the rows
\* written to the open file those still in the buffer are lost
Kill ==
    /\ pc \in Running
    /\ pc' = "killed"
    /\ IF fileOpen
         THEN \E k \in 0..Len(file.rows) : file' = [file EXCEPT !.rows = SubSeq(@, 1, k)]
         ELSE file' = file
    /\ existing' = <<>>
    /\ papers' = <<>>
    /\ hasNew' = FALSE
    /\ entry' = <<>>
    /\ status' = <<>>
    /\ written' = 0
    /\ fileOpen' = FALSE
    /\ calls' = <<>>
    /\ lastResp' = NoResp
    /\ UNCHANGED <<raw, run, opens, ret, preStore, prevPc>>
    /\ UNCHANGED bvars

\* the listing by the time of the following run: as it was, or one entry longer
LaterListings(r) ==
    {r} \cup {[exists |-> TRUE, cands |-> Append(r.cands, id)] : id \in Identities}

\* load_papers is invoked again after a run that returned
NextRun ==
    /\ pc \in {"noop", "done"}
    /\ run = 1
    /\ run' = run + 1
    /\ raw' \in LaterListings(raw)
    /\ preStore' = file
    /\ prevPc' = pc
    /\ pc' = "start"
    /\ existing' = <<>>
    /\ papers' = <<>>
    /\ hasNew' = FALSE
    /\ entry' = <<>>
    /\ status' = <<>>
    /\ written' = 0
    /\ fileOpen' = FALSE
    /\ opens' = 0
    /\ calls' = <<>>
    /\ lastResp' = NoResp
    /\ ret' = Pending
    /\ UNCHANGED file
    /\ UNCHANGED bvars

Step ==
    \/ LoadStore
    \/ MergeRaw
    \/ MergeNoRaw
    \/ ReturnEmpty
    \/ ReturnNoNew
    \/ OpenOutput
    \/ OpenFail
    \/ \E i \in DOMAIN status : StartTask(i)
    \/ \E i \in DOMAIN status, resp \in Responses : FinishLookup(i, resp)
    \/ WriteRow
    \/ WriteFail
    \/ Join
    \/ Finish
    \/ Kill

Next == Step \/ NextRun

Spec == Init /\ [][Next]_allvars

\* One run of the same program on stores large enough to fill the thread
\* pool: up to MaxPool rows lacking an abstract, and a listing absent, empty
\* or with one new entry.
PoolRow == RowOf(Paper("A", <<"X", "Y">>, ""))

InitPool ==
    /\ \E k \in 0..MaxPool : file = [exists |-> TRUE, rows |-> [i \in 1..k |-> PoolRow]]
    /\ raw \in {[exists |-> FALSE, cands |-> <<>>],
                [exists |-> TRUE, cands |-> <<>>],
                [exists |-> TRUE, cands |-> <<<<"B", <<"X", "Y">>>>>>]}
    /\ run = 1
    /\ preStore = file
    /\ prevPc = "none"
    /\ RunInit
    /\ BrowserIdle

SpecPool == InitPool /\ [][Step]_allvars

\* One run under the scheduling the claims on termination assume: the main
\* thread and the pool threads keep running and every request returns (it
\* carries REQUEST_TIMEOUT). Failures of the disk and a kill are not owed.
Progress ==
    \/ LoadStore
    \/ MergeRaw
    \/ MergeNoRaw
    \/ ReturnEmpty
    \/ ReturnNoNew
    \/ OpenOutput
    \/ \E i \in DOMAIN status : StartTask(i)
    \/ \E i \in DOMAIN status, resp \in Responses : FinishLookup(i, resp)
    \/ WriteRow
    \/ Join
    \/ Finish

SpecLive == Init /\ [][Step]_allvars /\ WF_allvars(Progress)

\* load_parsed_papers alone, on store files that also hold rows whose authors
\* column is no list: garbage, an unclosed list, a number.
LoadRowsUniverse ==
    {[title |-> "A", authors |-> t, abstract |-> "e"] :
        t \in {<<"[", "X", ",", "Y", "]">>, <<"[", "]">>, <<"not-a-list">>,
               <<"[", "X">>, <<"5">>}}
      \cup {[title |-> "B", authors |-> <<"[", "X", "]">>, abstract |-> ""]}

InitLoad ==
    /\ file \in {[exists |-> FALSE, rows |-> <<>>]}
                  \cup {[exists |-> TRUE, rows |-> rs] : rs \in SeqsUpTo(LoadRowsUniverse, MaxRows)}
    /\ raw = [exists |-> FALSE, cands |-> <<>>]
    /\ run = 1
    /\ preStore = file
    /\ prevPc = "none"
    /\ RunInit
    /\ BrowserIdle

SpecLoad == InitLoad /\ [][LoadStore]_allvars

\* ------------------------------------------------------- the browsing layer
NaN == "<NaN>"                         \* a paper the join gave no topic
Names == {"T1", "T2", NaN}
SelectedTopics == {None, "All Topics", "T1", "T2"}
AllRows == [i \in 1..Len(full_papers_df) |-> i]

\* full_papers_df[full_papers_df['Name'] == selected_topic], in frame order
RECURSIVE RowsWithTopic(_, _)
RowsWithTopic(topic, from) ==
    IF from > Len(full_papers_df) THEN <<>>
    ELSE (IF full_papers_df[from] = topic THEN <<from>> ELSE <<>>)
            \o RowsWithTopic(topic, from + 1)

\* get_paper_info: the row on display for an index, 0 for "Invalid index"
get_paper_info(index, frame) ==
    IF index < 0 \/ index >= Len(frame) THEN 0 ELSE frame[index + 1]

PipelineIdle ==
    /\ file = [exists |-> FALSE, rows |-> <<>>]
    /\ raw = [exists |-> FALSE, cands |-> <<>>]
    /\ run = 1
    /\ preStore = file
    /\ prevPc = "none"
    /\ RunInit

\* module initialisation: the frame is loaded, the interface shows row 0
InitBrowser ==
    /\ full_papers_df \in SeqsUpTo(Names, MaxPapers) \ {<<>>}
    /\ papers_df = AllRows
    /\ current_index = 0
    /\ shown = 1
    /\ lastOp = NoOp
    /\ PipelineIdle

\* variant: the filter keeps the cursor where it was
FilterKeepsIndex(selected_topic) ==
    /\ papers_df' = IF selected_topic = None \/ selected_topic = "All Topics"
                      THEN AllRows
                      ELSE RowsWithTopic(selected_topic, 1)
    /\ current_index' = current_index
    /\ shown' = get_paper_info(current_index', papers_df')
    /\ lastOp' = [op |-> "filter", n |-> 0, topic |-> selected_topic]
    /\ UNCHANGED <<full_papers_df, vars>>

\* on_topic_change: filter_papers_by_topic, then get_paper_info(current_index)
on_topic_change(selected_topic) ==
    /\ papers_df' = IF selected_topic = None \/ selected_topic = "All Topics"
                      THEN AllRows
                      ELSE RowsWithTopic(selected_topic, 1)
    /\ current_index' = 0
    /\ shown' = get_paper_info(current_index', papers_df')
    /\ lastOp' = [op |-> "filter", n |-> 0, topic |-> selected_topic]
    /\ UNCHANGED <<full_papers_df, vars>>

go_to_paper(index) ==
    /\ current_index' = IF 0 <= index /\ index < Len(papers_df) THEN index ELSE current_index
    /\ shown' = get_paper_info(current_index', papers_df)
    /\ lastOp' = [op |-> "goto", n |-> index, topic |-> ""]
    /\ UNCHANGED <<full_papers_df, papers_df, vars>>

\* variant: the cursor advances without looking at the size of the frame
next_paper_unchecked ==
    /\ current_index' = current_index + 1
    /\ shown' = get_paper_info(current_index', papers_df)
    /\ lastOp' = [op |-> "next", n |-> 0, topic |-> ""]
    /\ UNCHANGED <<full_papers_df, papers_df, vars>>

next_paper ==
    /\ current_index' = IF current_index < Len(papers_df) - 1
                          THEN current_index + 1 ELSE current_index
    /\ shown' = get_paper_info(current_index', papers_df)
    /\ lastOp' = [op |-> "next", n |-> 0, topic |-> ""]
    /\ UNCHANGED <<full_papers_df, papers_df, vars>>

prev_paper ==
    /\ current_index' = IF current_index > 0 THEN current_index - 1 ELSE current_index
    /\ shown' = get_paper_info(current_index', papers_df)
    /\ lastOp' = [op |-> "prev", n |-> 0, topic |-> ""]
    /\ UNCHANGED <<full_papers_df, papers_df, vars>>

first_paper ==
    /\ current_index' = 0
    /\ shown' = get_paper_info(current_index', papers_df)
    /\ lastOp' = [op |-> "first", n |-> 0, topic |-> ""]
    /\ UNCHANGED <<full_papers_df, papers_df, vars>>

last_paper ==
    /\ current_index' = Len(papers_df) - 1
    /\ shown' = get_paper_info(current_index', papers_df)
    /\ lastOp' = [op |-> "last", n |-> 0, topic |-> ""]
    /\ UNCHANGED <<full_papers_df, papers_df, vars>>

\* jump_to_paper: the paper number is 1-based
jump_to_paper(paper_number) ==
    /\ current_index' = IF 1 <= paper_number /\ paper_number <= Len(papers_df)
                          THEN paper_number - 1 ELSE current_index
    /\ shown' = get_paper_info(current_index', papers_df)
    /\ lastOp' = [op |-> "jump", n |-> paper_number, topic |-> ""]
    /\ UNCHANGED <<full_papers_df, papers_df, vars>>

\* the numbers a handler may be given: below, inside and beyond the frame
Numbers == (0 - 1)..(MaxPapers + 1)

NextBrowser ==
    \/ \E t \in SelectedTopics : on_topic_change(t)
    \/ \E i \in Numbers : go_to_paper(i)
    \/ next_paper
    \/ prev_paper
    \/ first_paper
    \/ last_paper
    \/ \E n \in Numbers : jump_to_paper(n)

SpecBrowser == InitBrowser /\ [][NextBrowser]_allvars

\* ---------------------------------------------------------------- claims
Enriching == pc \in {"enrich", "failing", "done"}
Unresolved(a) == a \in {None, ""}

\* C1 (as stated): a run that does not complete (killed, or a failed write)
\* leaves the store such that the next load returns what the load at the start
\* of the run returned.
C1_StoreKeptUnlessComplete ==
    pc \in {"killed", "error"} =>
        load_parsed_papers(file) = load_parsed_papers(preStore)

\* C2 (as stated): the store file is opened for writing at most once per run,
\* and while it is open or already rewritten no lookup is pending or in flight.
C2_SaveAfterJoin ==
    /\ opens <= 1
    /\ (fileOpen \/ (pc \in Running /\ file # preStore)) => (InFlight = {} /\ Queued = {})

\* C3 (as stated): the merged working set has no two records equal under the
\* (title, authors) identity, whatever the store holds.
C3_NoDuplicates ==
    pc = "merged" =>
        \A i, j \in 1..Len(papers) : i < j => ~PaperEq(papers[i], papers[j])

\* C3 (amended): the merge adds no record equal to a loaded or an already
\* merged one: two equal records of the working set are both rows of the
\* store, so a store without repeated rows gives a working set without
\* duplicates.
C3_NoNewDuplicates ==
    pc = "merged" =>
        \A i, j \in 1..Len(papers) :
            (i < j /\ papers[i].title = papers[j].title
                   /\ papers[i].authors = papers[j].authors) => j <= Len(existing)

C3_Witness ==
    /\ pc = "merged"
    /\ Len(existing) > 0
    /\ Len(papers) > Len(existing)
    /\ Len(papers) < Len(existing) + Len(raw.cands)

\* C4: the merged list is the loaded list, unchanged and in file order,
\* followed by the candidates equal to no loaded record and to no earlier
\* candidate, in listing order, each without an abstract; has_new_papers is
\* true iff at least one was appended.
FirstNew ==
    {k \in 1..Len(raw.cands) :
        /\ \A i \in 1..Len(existing) :
              ~(existing[i].title = raw.cands[k][1] /\ existing[i].authors = raw.cands[k][2])
        /\ \A j \in 1..(k - 1) : raw.cands[j] # raw.cands[k]}

NthNew(m) == CHOOSE k \in FirstNew : Cardinality({j \in FirstNew : j < k}) = m - 1

C4_MergeAppendsNew ==
    pc = "merged" =>
        /\ existing = load_parsed_papers(preStore)
        /\ Len(papers) = Len(existing) + Cardinality(FirstNew)
        /\ \A i \in 1..Len(existing) : papers[i] = existing[i]
        /\ \A m \in 1..Cardinality(FirstNew) :
              papers[Len(existing) + m] =
                  [title |-> raw.cands[NthNew(m)][1],
                   authors |-> raw.cands[NthNew(m)][2],
                   abstract |-> None]
        /\ hasNew = (Cardinality(FirstNew) > 0)

C4_Witness ==
    /\ pc = "merged"
    /\ Len(existing) = 1
    /\ existing[1].abstract = "e"
    /\ Len(raw.cands) = 2
    /\ raw.cands[1] = <<existing[1].title, existing[1].authors>>
    /\ Len(papers) = 2
    /\ hasNew

\* C5 (as stated): when the merge adds nothing the run calls no resolver,
\* does not write the store, and returns the working set.
C5_NoNewReturnsWorkingSet ==
    pc = "noop" =>
        /\ file = preStore
        /\ opens = 0
        /\ calls = <<>>
        /\ ret = [kind |-> "papers", val |-> papers]

\* C6: during and after the enrichment the list has the length of the list
\* passed in and position i holds the title and authors of input position i;
\* the rows written so far are the rows of positions 1, 2, ... in that order,
\* and on completion there is one row per input record and the returned list
\* is that list.
C6_OrderPreserved ==
    Enriching =>
        /\ Len(papers) = Len(entry)
        /\ \A i \in 1..Len(entry) :
              papers[i].title = entry[i].title /\ papers[i].authors = entry[i].authors
        /\ Len(file.rows) = written
        /\ written <= Len(entry)
        /\ \A k \in 1..Len(file.rows) :
              /\ file.rows[k].title = entry[k].title
              /\ WellFormed(file.rows[k].authors)
              /\ LiteralEval(file.rows[k].authors) = entry[k].authors
        /\ (pc = "done" => (written = Len(entry) /\ ret = [kind |-> "papers", val |-> papers]))

C6_Witness ==
    /\ pc = "enrich"
    /\ written >= 1
    /\ \E i, j \in 1..Len(papers) :
          /\ i < j
          /\ status[i] = "running"
          /\ status[j] = "done"
          /\ calls[j] = 1

\* C7: a record that enters the enrichment with a non-empty abstract causes
\* no resolver call and keeps its abstract.
C7_ResolvedUntouched ==
    Enriching =>
        \A i \in 1..Len(entry) :
            ~Unresolved(entry[i].abstract) =>
                (calls[i] = 0 /\ papers[i].abstract = entry[i].abstract)

C7_Witness ==
    /\ pc = "done"
    /\ \E i, j \in 1..Len(entry) :
          /\ ~Unresolved(entry[i].abstract)
          /\ calls[i] = 0
          /\ calls[j] = 1

\* C8: when the lookup that just finished got a matched title other than the
\* paper's title (an absent one included), the paper's abstract is empty; an
\* abstract other than the empty one comes from a response with the paper's
\* title, and is that response's abstract.
C8_MismatchGivesEmpty ==
    lastResp.i # 0 =>
        LET paper == papers[lastResp.i] IN
        /\ lastResp.title # paper.title => paper.abstract = ""
        /\ paper.abstract # "" =>
              (lastResp.title = paper.title /\ paper.abstract = lastResp.abstract)

C8_Witness ==
    /\ lastResp.i # 0
    /\ lastResp.title \notin {None, papers[lastResp.i].title}
    /\ lastResp.abstract = Payload
    /\ papers[lastResp.i].abstract = ""

\* C9 (as stated): a record the previous, completed run left with an empty
\* abstract in the store is submitted to the resolver by the run that follows.
FollowsSave == run = 2 /\ prevPc = "done"

C9_RetriedNextRun ==
    (FollowsSave /\ pc \in {"noop", "done"}) =>
        \A i \in 1..Len(existing) :
            existing[i].abstract = "" => (i \in DOMAIN calls /\ calls[i] >= 1)

\* C9 (amended): the following run submits such a record to the resolver,
\* once, when its merge adds at least one new record; when the merge adds
\* none the run makes no resolver call and returns.
C9_RetriedWhenNewPapers ==
    /\ (FollowsSave /\ pc = "done") =>
          \A i \in 1..Len(existing) : existing[i].abstract = "" => calls[i] = 1
    /\ (FollowsSave /\ pc = "noop") => (~hasNew /\ calls = <<>>)

C9_Witness ==
    /\ FollowsSave
    /\ pc = "done"
    /\ \E i \in 1..Len(existing) : existing[i].abstract = "" /\ calls[i] = 1

\* C10: at most 4 lookups are in flight at any time, however many records
\* lack an abstract.
C10_BoundedInFlight == Cardinality(InFlight) <= 4

C10_Witness ==
    /\ Cardinality(InFlight) = 4
    /\ Queued # {}
    /\ \A i \in Queued : Unresolved(papers[i].abstract)

\* C11: whatever a lookup receives, the step that finishes it leaves the
\* position of the run, its result and the store file alone; a completed run
\* has opened the store once and written one row per record of the working
\* set, and a record whose lookup left it without an abstract has a row with
\* the empty abstract. With an empty store and one candidate that is not
\* found the store ends with that one row, its abstract empty.
C11_RowsOfCompletedRun ==
    pc = "done" =>
        /\ opens = 1
        /\ Len(file.rows) = Len(entry)
        /\ \A i \in 1..Len(entry) :
              /\ file.rows[i].title = entry[i].title
              /\ (calls[i] = 1 /\ papers[i].abstract \in {"", None})
                    => file.rows[i].abstract = ""

C11_LookupStep ==
    lastResp'.i # 0 => (pc' = pc /\ ret' = ret /\ file' = file /\ written' = written)

C11_FailuresAbsorbed == [](C11_RowsOfCompletedRun) /\ [][C11_LookupStep]_vars

C11_Witness ==
    /\ pc = "done"
    /\ load_parsed_papers(preStore) = <<>>
    /\ Len(raw.cands) = 1
    /\ calls = <<1>>
    /\ opens = 1
    /\ file.rows = <<[title |-> raw.cands[1][1],
                      authors |-> ReprAuthors(raw.cands[1][2]),
                      abstract |-> ""]>>

\* C12: once a write of the store has failed the run cannot end by returning
\* a list: it ends raising (or is killed); every run that ended in an error
\* raised to the caller, and a run that returned after enriching wrote every
\* row.
C12_NoReturnAfterFailure ==
    pc = "failing" => (pc' \in {"failing", "error", "killed"} /\ ret'.kind # "papers")

C12_ErrorRaises ==
    /\ pc = "error" => ret.kind = "raise"
    /\ (pc = "done" /\ ret.kind = "papers") => (written = Len(entry) /\ Len(file.rows) = Len(entry))
    /\ ret.kind = "papers" => pc \in {"noop", "done"}

C12_WriteFailurePropagates == [](C12_ErrorRaises) /\ [][C12_NoReturnAfterFailure]_vars

C12_Witness ==
    /\ pc = "error"
    /\ opens = 1
    /\ written >= 1
    /\ written < Len(entry)
    /\ ret.kind = "raise"

\* C15: in a run, no record gets more than one resolver call; a record that
\* entered the enrichment without an abstract has got exactly one as soon as
\* its task was taken from the queue, whatever the response, and when the run
\* completes every such record has got exactly one.
C15_OneCallPerUnresolved ==
    Enriching =>
        \A i \in 1..Len(entry) :
            /\ calls[i] <= 1
            /\ (Unresolved(entry[i].abstract) /\ status[i] # "queued") => calls[i] = 1
            /\ (Unresolved(entry[i].abstract) /\ pc = "done") => calls[i] = 1

C15_Witness ==
    /\ pc = "done"
    /\ \E i, j \in 1..Len(entry) :
          /\ i # j
          /\ Unresolved(entry[i].abstract) /\ calls[i] = 1 /\ papers[i].abstract = ""
          /\ Unresolved(entry[j].abstract) /\ calls[j] = 1

\* C13 (as stated): the load returns, for an absent file, the empty list, and
\* otherwise exactly the rows whose authors column denotes a list of strings,
\* decoded, in file order.
ValidRows == {k \in 1..Len(file.rows) : WellFormed(file.rows[k].authors)}

NthValid(m) == CHOOSE k \in ValidRows : Cardinality({j \in ValidRows : j < k}) = m - 1

C13_LoadReturnsValidRows ==
    pc = "loaded" =>
        /\ ~file.exists => existing = <<>>
        /\ Len(existing) = Cardinality(ValidRows)
        /\ \A m \in 1..Cardinality(ValidRows) :
              LET r == file.rows[NthValid(m)] IN
              existing[m] = [title |-> r.title,
                             authors |-> [k \in 1..((Len(r.authors) - 1) \div 2) |-> r.authors[2 * k]],
                             abstract |-> r.abstract]

\* C14 (as stated): a run whose listing is absent or has no entries ends
\* without raising, in the no-op state, returning the records of the store.
C14_EmptyRunReturnsStore ==
    ((~raw.exists \/ raw.cands = <<>>) /\ pc \in {"noop", "done", "error"}) =>
        /\ pc = "noop"
        /\ file = preStore
        /\ ret = [kind |-> "papers", val |-> load_parsed_papers(preStore)]

\* C16 (as stated): after a completed enrichment a load of the store returns
\* the list the run returned: same length, and title, authors and abstract
\* equal position by position.
C16_LoadEqualsReturned ==
    pc = "done" =>
        /\ Len(load_parsed_papers(file)) = Len(ret.val)
        /\ \A i \in 1..Len(ret.val) :
              /\ load_parsed_papers(file)[i].title = ret.val[i].title
              /\ load_parsed_papers(file)[i].authors = ret.val[i].authors
              /\ load_parsed_papers(file)[i].abstract = ret.val[i].abstract

\* C16 (amended): the same, except that a record returned with no abstract
\* (None) is loaded with the empty abstract.
C16_LoadEqualsReturnedUpToNone ==
    pc = "done" =>
        /\ Len(load_parsed_papers(file)) = Len(ret.val)
        /\ \A i \in 1..Len(ret.val) :
              /\ load_parsed_papers(file)[i].title = ret.val[i].title
              /\ load_parsed_papers(file)[i].authors = ret.val[i].authors
              /\ IF ret.val[i].abstract = None
                   THEN load_parsed_papers(file)[i].abstract = ""
                   ELSE load_parsed_papers(file)[i].abstract = ret.val[i].abstract

C16_Witness ==
    /\ pc = "done"
    /\ Len(ret.val) >= 2
    /\ \E i, j \in 1..Len(ret.val) :
          /\ ret.val[i].abstract = Payload
          /\ ret.val[j].abstract = None
          /\ load_parsed_papers(file)[j].abstract = ""

\* C17: with every lookup returning and the threads scheduled fairly, a run
\* eventually reaches a terminal state: no-op, enrich-and-persist complete,
\* a raised store error (or the kill from outside).
C17_RunTerminates == <>(pc \in {"noop", "done", "error", "killed"})

C17_Witness ==
    /\ pc = "done"
    /\ Len(entry) >= 2
    /\ \A i \in 1..Len(entry) : calls[i] = 1 /\ status[i] = "done"
    /\ written = Len(entry)

\* C18 (as stated): the cursor is never negative, and lies inside the
\* filtered frame whenever the frame is not empty.
C18_CursorInRange ==
    /\ current_index >= 0
    /\ Len(papers_df) > 0 => (0 <= current_index /\ current_index < Len(papers_df))

\* C18 (amended): the cursor lies inside the filtered frame whenever the
\* frame is not empty; with an empty frame (a topic no paper has) it is 0, or
\* -1 once "last" was used, and "Invalid index" is on display.
C18_CursorInRangeOrEmpty ==
    /\ Len(papers_df) > 0 =>
          (0 <= current_index /\ current_index < Len(papers_df)
             /\ shown = papers_df[current_index + 1])
    /\ Len(papers_df) = 0 => (current_index \in {0, 0 - 1} /\ shown = 0)

C18_Witness ==
    /\ lastOp.op = "next"
    /\ Len(papers_df) >= 2
    /\ Len(papers_df) < Len(full_papers_df)
    /\ current_index = Len(papers_df) - 1

\* C19: a step of the topic filter leaves the cursor at 0; a jump-to or go-to
\* step with an argument outside the frame leaves the cursor and the frame as
\* they were and displays the paper at the old cursor; a next step at the
\* last paper and a prev step at the first leave the cursor as it was.
C19_Step ==
    /\ lastOp'.op = "filter" => current_index' = 0
    /\ (lastOp'.op = "jump" /\ ~(1 <= lastOp'.n /\ lastOp'.n <= Len(papers_df))) =>
          /\ current_index' = current_index
          /\ papers_df' = papers_df
          /\ shown' = get_paper_info(current_index, papers_df)
    /\ (lastOp'.op = "goto" /\ ~(0 <= lastOp'.n /\ lastOp'.n < Len(papers_df))) =>
          /\ current_index' = current_index
          /\ papers_df' = papers_df
          /\ shown' = get_paper_info(current_index, papers_df)
    /\ (lastOp'.op = "next" /\ current_index = Len(papers_df) - 1) =>
          current_index' = current_index
    /\ (lastOp'.op = "prev" /\ current_index = 0) => current_index' = current_index

C19_FrameOfHandlers == [][C19_Step]_allvars

C19_Witness ==
    /\ lastOp.op = "jump"
    /\ lastOp.n > Len(papers_df)
    /\ current_index > 0
    /\ Len(papers_df) < Len(full_papers_df)
    /\ shown = papers_df[current_index + 1]

====
